---- MODULE Spec2Model ----
(***************************************************************************)
(* Model of crates/ui2/src/components/label.rs: the run segmentation loop  *)
(* of HighlightedLabel::render.  A label is modelled by the sequence of    *)
(* the UTF-8 byte lengths of its characters (char::len_utf8); the byte     *)
(* offset that char_indices() yields for a character is the sum of the     *)
(* lengths of the characters before it.                                    *)
(***************************************************************************)
EXTENDS Integers, Sequences, FiniteSets

VARIABLES
    label,              \* self.label, as the byte length of each character
    highlight_indices,  \* self.highlight_indices (Vec<usize>)
    color,              \* self.color (LabelColor)
    char_pos,           \* number of characters the for loop has taken
    hl_pos,             \* number of entries taken from the peekable iterator
    runs,               \* runs: Vec<TextRun>, each [len, color]
    highlighted,        \* history: byte offsets of the characters set to highlight_color
    pc                  \* "scan" inside the for loop, "done" after it

vars == <<label, highlight_indices, color, char_pos, hl_pos, runs, highlighted, pc>>

\* ---------------------------------------------------------------- bounds
MaxChars == 3       \* characters in a label
MaxHl == 3          \* entries in highlight_indices
MaxOffset == 3      \* largest byte offset drawn for a highlight entry

SeqsUpTo(S, n) == UNION {[1..k -> S] : k \in 0..n}

\* char::len_utf8 of the characters drawn: one byte ('H') or two ('é'),
\* the two kinds in the labels of LabelStory.
CharLens == {1, 2}

Labels == SeqsUpTo(CharLens, MaxChars)
HighlightLists == SeqsUpTo(0..MaxOffset, MaxHl)

\* ---------------------------------------------------------------- colors
LabelColor ==
    {"Default", "Muted", "Created", "Modified", "Deleted",
     "Disabled", "Hidden", "Placeholder", "Accent"}

\* The theme's palette: one distinct opaque value per slot.
Theme ==
    [text |-> "text", text_muted |-> "text_muted", created |-> "created",
     modified |-> "modified", deleted |-> "deleted",
     text_disabled |-> "text_disabled", hidden |-> "hidden",
     text_placeholder |-> "text_placeholder", text_accent |-> "text_accent"]

hsla_AccentAsText(c) ==
    CASE c = "Default" -> Theme.text
      [] c = "Muted" -> Theme.text_muted
      [] c = "Created" -> Theme.created
      [] c = "Modified" -> Theme.modified
      [] c = "Deleted" -> Theme.deleted
      [] c = "Disabled" -> Theme.text_disabled
      [] c = "Hidden" -> Theme.hidden
      [] c = "Placeholder" -> Theme.text_placeholder
      [] c = "Accent" -> Theme.text

hsla(c) ==
    CASE c = "Default" -> Theme.text
      [] c = "Muted" -> Theme.text_muted
      [] c = "Created" -> Theme.created
      [] c = "Modified" -> Theme.modified
      [] c = "Deleted" -> Theme.deleted
      [] c = "Disabled" -> Theme.text_disabled
      [] c = "Hidden" -> Theme.hidden
      [] c = "Placeholder" -> Theme.text_placeholder
      [] c = "Accent" -> Theme.text_accent

highlight_color == Theme.text_accent

\* The label colors drawn for self.color: the default, another role, and the
\* one role that resolves to the highlight color.
Colors == {"Default", "Deleted", "Accent"}

\* ---------------------------------------------------------------- helpers
RECURSIVE SumTo(_, _)
SumTo(lens, n) == IF n = 0 THEN 0 ELSE SumTo(lens, n - 1) + lens[n]

char_ix_CharCount(lbl, n) == n

\* Byte offset of the (n+1)-th character, as char_indices() yields it.
char_ix(lbl, n) == SumTo(lbl, n)

\* Total UTF-8 byte length of the label.
ByteLen(lbl) == SumTo(lbl, Len(lbl))

peek_matches_Contains(hl, pos, ix) == \E i \in 1..Len(hl) : hl[i] = ix

\* highlight_indices.peek() is Some(highlight_ix) and char_ix == *highlight_ix
peek_matches(hl, pos, ix) == pos < Len(hl) /\ hl[pos + 1] = ix

next_cursor_SkipStale(hl, pos, ix) ==
    IF pos < Len(hl) /\ hl[pos + 1] <= ix THEN pos + 1 ELSE pos

\* highlight_indices.next() is called only inside the matching branch
next_cursor(hl, pos, ix) == IF peek_matches(hl, pos, ix) THEN pos + 1 ELSE pos

resolve_color_Inverted(base, hit) == IF hit THEN base ELSE highlight_color

\* let mut color = self.color.hsla(cx); if matched { color = highlight_color }
resolve_color(base, hit) == IF hit THEN highlight_color ELSE base

push_run_OneByte(rs, c, n) ==
    IF rs # <<>> /\ rs[Len(rs)].color = c
    THEN [rs EXCEPT ![Len(rs)].len = @ + 1]
    ELSE Append(rs, [len |-> n, color |-> c])

push_run_NoMerge(rs, c, n) == Append(rs, [len |-> n, color |-> c])

\* Extend the last run when it has the resolved color, else push a new run.
push_run(rs, c, n) ==
    IF rs # <<>> /\ rs[Len(rs)].color = c
    THEN [rs EXCEPT ![Len(rs)].len = @ + n]
    ELSE Append(rs, [len |-> n, color |-> c])

next_char_Stuck(pos) == pos

\* The char_indices() iterator yields each character once, in order.
next_char(pos) == pos + 1

\* ---------------------------------------------------------------- machine
Init ==
    /\ label \in Labels
    /\ highlight_indices \in HighlightLists
    /\ color \in Colors
    /\ char_pos = 0
    /\ hl_pos = 0
    /\ runs = <<>>
    /\ highlighted = <<>>
    /\ pc = "scan"

\* One iteration of `for (char_ix, char) in self.label.char_indices()`.
Step ==
    /\ pc = "scan"
    /\ char_pos < Len(label)
    /\ LET ix == char_ix(label, char_pos)
           n == label[char_pos + 1]
           hit == peek_matches(highlight_indices, hl_pos, ix)
       IN /\ hl_pos' = next_cursor(highlight_indices, hl_pos, ix)
          /\ highlighted' = IF hit THEN Append(highlighted, ix) ELSE highlighted
          /\ runs' = push_run(runs, resolve_color(hsla(color), hit), n)
    /\ char_pos' = next_char(char_pos)
    /\ UNCHANGED <<label, highlight_indices, color, pc>>

\* The iterator is exhausted: the runs are handed to Text::styled.
Finish ==
    /\ pc = "scan"
    /\ char_pos >= Len(label)
    /\ pc' = "done"
    /\ UNCHANGED <<label, highlight_indices, color, char_pos, hl_pos, runs, highlighted>>

Next == Step \/ Finish

Spec == Init /\ [][Next]_vars

\* The loop is sequential code: it keeps running until it returns.
FairSpec == Init /\ [][Next]_vars /\ WF_vars(Next)

\* The same loop as a function of its inputs.
RECURSIVE Scan(_, _, _, _, _, _)
Scan(lbl, hl, base, i, p, rs) ==
    IF i >= Len(lbl) THEN rs
    ELSE LET ix == char_ix(lbl, i)
             hit == peek_matches(hl, p, ix)
         IN Scan(lbl, hl, base, next_char(i), next_cursor(hl, p, ix),
                 push_run(rs, resolve_color(hsla(base), hit), lbl[i + 1]))

Segment(lbl, hl, base) == Scan(lbl, hl, base, 0, 0, <<>>)

\* ---------------------------------------------------------------- vocabulary of the properties
RECURSIVE SumLens(_)
SumLens(rs) == IF rs = <<>> THEN 0 ELSE SumLens(SubSeq(rs, 1, Len(rs) - 1)) + rs[Len(rs)].len

\* The runs byte by byte: the color of each byte of the text they cover.
RECURSIVE Expand(_)
Expand(rs) ==
    IF rs = <<>> THEN <<>>
    ELSE Expand(SubSeq(rs, 1, Len(rs) - 1)) \o [b \in 1..rs[Len(rs)].len |-> rs[Len(rs)].color]

Range(s) == {s[i] : i \in 1..Len(s)}

StrictlyAscending(s) == \A i \in 1..(Len(s) - 1) : s[i] < s[i + 1]

\* Byte offsets at which a character of the label starts.
CharStarts(lbl) == {SumTo(lbl, n) : n \in 0..(Len(lbl) - 1)}

\* Start offset of the character that holds byte b (0-based).
StartOf(lbl, b) ==
    CHOOSE s \in CharStarts(lbl) :
        s <= b /\ \A t \in CharStarts(lbl) : t <= b => t <= s

WellFormed ==
    /\ StrictlyAscending(highlight_indices)
    /\ Range(highlight_indices) \subseteq CharStarts(label)
    /\ hsla(color) # highlight_color

WholeTextRun(c) == <<[len |-> ByteLen(label), color |-> c]>>

\* ---------------------------------------------------------------- C1
\* C1: after each character the byte lengths of the runs sum to the bytes of
\* the characters processed so far, and at the end to the byte length of the
\* whole label, for every label and every highlight list.
C1_RunLengthsSum ==
    /\ SumLens(runs) = SumTo(label, char_pos)
    /\ pc = "done" => SumLens(runs) = ByteLen(label)

C1_Witness ==
    /\ pc = "done"
    /\ Len(runs) >= 2
    /\ ByteLen(label) > Len(label)
    /\ ~StrictlyAscending(highlight_indices)
    /\ ~(Range(highlight_indices) \subseteq CharStarts(label))

\* ---------------------------------------------------------------- C2
\* C2: at every point of the scan and in the output no two adjacent runs have
\* the same color.
C2_MaximalMerge ==
    \A i \in 1..(Len(runs) - 1) : runs[i].color # runs[i + 1].color

C2_Witness ==
    /\ pc = "done"
    /\ Len(runs) >= 2
    /\ Len(runs) < Len(label)
    /\ hl_pos >= 1

\* ---------------------------------------------------------------- C3
\* C3: for well-formed input (highlights strictly ascending, each the start
\* offset of a character, base color different from the highlight color) the
\* runs, expanded byte by byte, give the highlight color to exactly the bytes
\* of the characters whose start offset is in highlights and the base color
\* to every other byte; every run has a positive length.
C3_BytesColored ==
    (pc = "done" /\ WellFormed) =>
        /\ Len(Expand(runs)) = ByteLen(label)
        /\ \A i \in 1..Len(runs) : runs[i].len > 0
        /\ \A b \in 1..ByteLen(label) :
              Expand(runs)[b] =
                  IF StartOf(label, b - 1) \in Range(highlight_indices)
                  THEN highlight_color ELSE hsla(color)

\* "hé l" with highlights [1]: runs of length 1, 2, 1.
C3_Witness ==
    /\ pc = "done"
    /\ WellFormed
    /\ label = <<1, 2, 1>>
    /\ highlight_indices = <<1>>
    /\ runs = <<[len |-> 1, color |-> hsla(color)],
                [len |-> 2, color |-> highlight_color],
                [len |-> 1, color |-> hsla(color)]>>

\* ---------------------------------------------------------------- C4
\* C4 as stated: for every text, an empty highlight list gives exactly one run,
\* of the whole text's byte length, in the base color.
C4_Original ==
    (pc = "done" /\ highlight_indices = <<>>) => runs = WholeTextRun(hsla(color))

\* C4 amended: for every non-empty text an empty highlight list gives exactly
\* one run, of the whole text's byte length, in the base color; for the empty
\* text it gives the empty run list.
C4_EmptyHighlights ==
    (pc = "done" /\ highlight_indices = <<>>) =>
        IF label = <<>> THEN runs = <<>> ELSE runs = WholeTextRun(hsla(color))

C4_Witness ==
    /\ pc = "done"
    /\ highlight_indices = <<>>
    /\ Len(label) >= 2
    /\ ByteLen(label) > Len(label)
    /\ Len(runs) = 1

\* ---------------------------------------------------------------- C5
RemoveAt(s, k) == SubSeq(s, 1, k - 1) \o SubSeq(s, k + 1, Len(s))

Before(s, k) == SubSeq(s, 1, k - 1)

Misaligned(lbl, off) == off \notin CharStarts(lbl)

\* C5 as stated: an offset that is not the start of a character never matches
\* and the runs are those of the same list with that offset removed.
C5_Original ==
    pc = "done" =>
        \A k \in 1..Len(highlight_indices) :
            Misaligned(label, highlight_indices[k]) =>
                /\ highlight_indices[k] \notin Range(highlighted)
                /\ runs = Segment(label, RemoveAt(highlight_indices, k), color)

\* C5 amended: an offset that is not the start of a character never matches a
\* character and the cursor never moves past it, so no later entry of the list
\* matches either; the runs are those of the list cut off just before that
\* offset (later well-aligned offsets are not highlighted).
C5_MisalignedBlocks ==
    \A k \in 1..Len(highlight_indices) :
        Misaligned(label, highlight_indices[k]) =>
            /\ highlight_indices[k] \notin Range(highlighted)
            /\ hl_pos < k
            /\ pc = "done" => runs = Segment(label, Before(highlight_indices, k), color)

\* A misaligned entry reached by the cursor, with a well-aligned one after it.
C5_Witness ==
    /\ pc = "done"
    /\ hsla(color) # highlight_color
    /\ \E k \in 1..(Len(highlight_indices) - 1) :
          /\ Misaligned(label, highlight_indices[k])
          /\ highlight_indices[k] < ByteLen(label)
          /\ hl_pos = k - 1
          /\ hl_pos >= 1
          /\ highlight_indices[k + 1] \in CharStarts(label)
          /\ highlight_indices[k + 1] > highlight_indices[k]

\* ---------------------------------------------------------------- C6
OutOfRange(lbl, off) == off >= ByteLen(lbl)

Repeated(hl, k) == \E j \in 1..(k - 1) : hl[j] = hl[k]

DupOrOut(lbl, hl, k) == Repeated(hl, k) \/ OutOfRange(lbl, hl[k])

\* The first k entries of hl without the repeated and the out-of-range ones.
RECURSIVE Cleaned(_, _, _)
Cleaned(lbl, hl, k) ==
    IF k = 0 THEN <<>>
    ELSE IF DupOrOut(lbl, hl, k) THEN Cleaned(lbl, hl, k - 1)
         ELSE Append(Cleaned(lbl, hl, k - 1), hl[k])

\* Each consumed entry matched one character, and no character twice.
ConsumedOnce ==
    /\ hl_pos <= Len(highlight_indices)
    /\ highlighted = SubSeq(highlight_indices, 1, hl_pos)
    /\ \A i, j \in 1..Len(highlighted) : i # j => highlighted[i] # highlighted[j]

\* C6 as stated: duplicates and out-of-range offsets match at most once, and
\* the runs are those of the list with them removed.
C6_Original ==
    pc = "done" =>
        /\ ConsumedOnce
        /\ runs = Segment(label, Cleaned(label, highlight_indices, Len(highlight_indices)), color)

\* C6 amended: every entry either never matches or matches exactly one
\* character once and is then consumed; an out-of-range entry and a repeated
\* occurrence of an earlier entry never match and the cursor never moves past
\* them; the runs are those of the list cut off just before the first such
\* entry.
C6_DupOrOutBlocks ==
    /\ ConsumedOnce
    /\ \A k \in 1..Len(highlight_indices) :
          DupOrOut(label, highlight_indices, k) =>
              /\ hl_pos < k
              /\ pc = "done" => runs = Segment(label, Before(highlight_indices, k), color)

\* A consumed entry, then its duplicate, then an entry that would have matched.
C6_Witness ==
    /\ pc = "done"
    /\ hsla(color) # highlight_color
    /\ Len(highlight_indices) >= 3
    /\ hl_pos = 1
    /\ highlight_indices[2] = highlight_indices[1]
    /\ highlight_indices[3] \in CharStarts(label)
    /\ highlight_indices[3] > highlight_indices[2]

\* ---------------------------------------------------------------- C7
\* C7: for every label and highlight list the scan takes the characters one at
\* a time, left to right, each exactly once, and then ends in the normal
\* result state.
C7_Total ==
    /\ <>(pc = "done" /\ char_pos = Len(label))
    /\ [](pc \in {"scan", "done"} /\ char_pos \in 0..Len(label))
    /\ [][\/ pc = "scan" /\ pc' = "scan" /\ char_pos < Len(label) /\ char_pos' = char_pos + 1
          \/ pc = "scan" /\ pc' = "done" /\ char_pos = Len(label) /\ char_pos' = char_pos]_vars

C7_Witness ==
    /\ pc = "done"
    /\ char_pos = Len(label)
    /\ Len(label) >= 2
    /\ Len(highlight_indices) >= 3
    /\ highlight_indices[2] < highlight_indices[1]
    /\ Misaligned(label, highlight_indices[2])
    /\ OutOfRange(label, highlight_indices[3])

\* ---------------------------------------------------------------- C8
OutOfOrder(hl, k) == k >= 2 /\ hl[k] <= hl[k - 1]

\* C8: the cursor never reaches past an out-of-order entry (an entry not
\* greater than its predecessor), so no entry after the first one is matched;
\* the cursor moves forward only, one entry at a time, and only when the entry
\* under it equals the current character's byte offset.
C8_CursorForwardOnly ==
    /\ [](\A k \in 1..Len(highlight_indices) :
              OutOfOrder(highlight_indices, k) =>
                  hl_pos < k /\ Len(highlighted) < k)
    /\ [][\/ hl_pos' = hl_pos
          \/ /\ hl_pos' = hl_pos + 1
             /\ char_pos' = char_pos + 1
             /\ hl_pos < Len(highlight_indices)
             /\ highlight_indices[hl_pos + 1] = SumTo(label, char_pos)]_vars

\* The cursor stopped on an out-of-order entry; a later entry names a character
\* that stayed in the base color.
C8_Witness ==
    /\ pc = "done"
    /\ hsla(color) # highlight_color
    /\ Len(highlight_indices) >= 3
    /\ hl_pos = 1
    /\ highlight_indices[2] < highlight_indices[1]
    /\ highlight_indices[3] \in CharStarts(label)
    /\ highlight_indices[3] > highlight_indices[1]
    /\ highlight_indices[3] \notin Range(highlighted)

\* ---------------------------------------------------------------- C9
\* C9: when the label color is Accent (the base color is the highlight color)
\* every non-empty label gives exactly one run spanning the whole text,
\* whatever the highlight list.
C9_AccentSingleRun ==
    (pc = "done" /\ color = "Accent" /\ label # <<>>) =>
        /\ hsla(color) = highlight_color
        /\ runs = WholeTextRun(highlight_color)

C9_Witness ==
    /\ pc = "done"
    /\ color = "Accent"
    /\ Len(label) >= 3
    /\ hl_pos >= 1
    /\ hl_pos < Len(label)
    /\ Len(runs) = 1

\* ---------------------------------------------------------------- C10
\* Characters processed so far whose bytes the runs give the highlight color.
HighlightColored ==
    {i \in 1..char_pos : Expand(runs)[SumTo(label, i - 1) + 1] = highlight_color}

\* C10: the consumed entries are a strictly ascending prefix of the list, as
\* many as the characters so far set to the highlight color, each equal to the
\* byte offset of the character it colored; the highlighted characters are no
\* more than the entries nor than the characters processed.
C10_ConsumedPrefix ==
    /\ hl_pos <= Len(highlight_indices)
    /\ highlighted = SubSeq(highlight_indices, 1, hl_pos)
    /\ StrictlyAscending(SubSeq(highlight_indices, 1, hl_pos))
    /\ \A i \in 1..hl_pos :
          \E n \in 0..(char_pos - 1) : highlight_indices[i] = SumTo(label, n)
    /\ Len(highlighted) <= char_pos
    /\ hsla(color) # highlight_color =>
          /\ Cardinality(HighlightColored) = hl_pos
          /\ \A i \in HighlightColored : SumTo(label, i - 1) \in Range(highlighted)

C10_Witness ==
    /\ pc = "done"
    /\ hsla(color) # highlight_color
    /\ hl_pos = 2
    /\ Len(highlight_indices) = 3
    /\ Len(label) = 3
    /\ ByteLen(label) > Len(label)

====
